---- MODULE Spec2Model ----
(***************************************************************************)
(* Model of homework.py: the fitness-tracker module that builds a training *)
(* record from a sensor package (read_package), computes distance, mean    *)
(* speed and spent calories (Training and its three subclasses), formats   *)
(* the result (InfoMessage.get_message) and prints it (main, __main__).    *)
(*                                                                         *)
(* Python floats are modelled as exact rationals <<n, d>> (d > 0, lowest   *)
(* terms); a ZeroDivisionError is an explicit fault value.  Text labels    *)
(* of the source are Cyrillic; they are transliterated here because the    *)
(* module text has to be ASCII.                                            *)
(***************************************************************************)
EXTENDS Integers, Sequences, FiniteSets, TLC

VARIABLES pc, called, workout_type, data, training, info, message, exc,
          stdout, i, CONFORMITY_TO_CLASSES

vars == <<pc, called, workout_type, data, training, info, message, exc,
          stdout, i, CONFORMITY_TO_CLASSES>>

(***************************************************************************)
(* Bounds of the explored inputs.                                          *)
(***************************************************************************)
MaxReadings == 8

(***************************************************************************)
(* Exact rational arithmetic standing for float arithmetic.                *)
(***************************************************************************)
Abs(x) == IF x < 0 THEN -x ELSE x

RECURSIVE GCD(_, _)
GCD(a, b) == IF b = 0 THEN a ELSE GCD(b, a % b)

Rat(n, d) ==
    LET g == GCD(Abs(n), Abs(d))
        s == IF d < 0 THEN -1 ELSE 1
    IN  <<(s * n) \div g, (s * d) \div g>>

R(x) == <<x, 1>>

RAdd(a, b) == Rat(a[1] * b[2] + b[1] * a[2], a[2] * b[2])
RSub(a, b) == Rat(a[1] * b[2] - b[1] * a[2], a[2] * b[2])
RMul(a, b) ==
    LET x == Rat(a[1], b[2])
        y == Rat(b[1], a[2])
    IN  Rat(x[1] * y[1], x[2] * y[2])
RInv(a) == Rat(a[2], a[1])
RFloor(a) == R(a[1] \div a[2])
RLess(a, b) == a[1] * b[2] < b[1] * a[2]

(* A float result or the ZeroDivisionError raised while computing it. *)
Ok(v) == [ok |-> TRUE, v |-> v]
ZeroDivisionError == [ok |-> FALSE, v |-> R(0)]

(* x / y of Python: raises ZeroDivisionError when y is zero. *)
TrueDiv(x, y) ==
    IF ~x.ok \/ ~y.ok THEN ZeroDivisionError
    ELSE IF y.v[1] = 0 THEN ZeroDivisionError
    ELSE Ok(RMul(x.v, RInv(y.v)))

(* Variant of FloorDiv that keeps the fractional quotient. *)
FloorDiv_fractional(x, y) == TrueDiv(x, y)

(* x // y of Python: floor of the quotient, ZeroDivisionError when y is zero. *)
FloorDiv(x, y) ==
    IF ~x.ok \/ ~y.ok THEN ZeroDivisionError
    ELSE IF y.v[1] = 0 THEN ZeroDivisionError
    ELSE Ok(RFloor(RMul(x.v, RInv(y.v))))

Mul(x, y) == IF ~x.ok \/ ~y.ok THEN ZeroDivisionError ELSE Ok(RMul(x.v, y.v))
Add(x, y) == IF ~x.ok \/ ~y.ok THEN ZeroDivisionError ELSE Ok(RAdd(x.v, y.v))
Sub(x, y) == IF ~x.ok \/ ~y.ok THEN ZeroDivisionError ELSE Ok(RSub(x.v, y.v))
Num(x) == Ok(R(x))

(***************************************************************************)
(* Class constants of Training and its subclasses.                         *)
(***************************************************************************)
M_IN_KM == 1000
LEN_STEP == Rat(65, 100)
MIN_IN_H == 60
COEFF_TO_SPEED == 18
SUBTRAHEND_CALORIES == 20
COEFF_OF_WEIGHT == Rat(35, 1000)
COEFF_OF_ACCELERATION == Rat(29, 1000)
Swimming_LEN_STEP == Rat(138, 100)
COEFF_SPEED == Rat(11, 10)
COEFF_TO_WEIGHT == 2

None == [cls |-> "NoneType"]
NoExc == [type |-> "none", msg |-> ""]

(***************************************************************************)
(* Dataclass constructors.  The generated __init__ takes the annotated     *)
(* attributes positionally, in declaration order; annotated attributes     *)
(* with a value are optional parameters with that default.                 *)
(***************************************************************************)
Arg(args, k, default) == IF Len(args) >= k THEN R(args[k]) ELSE default

(* Variant of Running with duration and weight bound in the wrong order. *)
Running_swapped(args) ==
    IF Len(args) < 3 \/ Len(args) > 5 THEN None
    ELSE [cls |-> "Running",
          action |-> args[1], duration |-> args[3], weight |-> args[2],
          COEFF_TO_SPEED |-> Arg(args, 4, R(COEFF_TO_SPEED)),
          SUBTRAHEND_CALORIES |-> Arg(args, 5, R(SUBTRAHEND_CALORIES))]

Running(args) ==
    IF Len(args) < 3 \/ Len(args) > 5 THEN None
    ELSE [cls |-> "Running",
          action |-> args[1], duration |-> args[2], weight |-> args[3],
          COEFF_TO_SPEED |-> Arg(args, 4, R(COEFF_TO_SPEED)),
          SUBTRAHEND_CALORIES |-> Arg(args, 5, R(SUBTRAHEND_CALORIES))]

SportsWalking(args) ==
    IF Len(args) # 4 THEN None
    ELSE [cls |-> "SportsWalking",
          action |-> args[1], duration |-> args[2], weight |-> args[3],
          height |-> args[4]]

Swimming(args) ==
    IF Len(args) < 5 \/ Len(args) > 8 THEN None
    ELSE [cls |-> "Swimming",
          action |-> args[1], duration |-> args[2], weight |-> args[3],
          length_pool |-> args[4], count_pool |-> args[5],
          LEN_STEP |-> Arg(args, 6, Swimming_LEN_STEP),
          COEFF_SPEED |-> Arg(args, 7, COEFF_SPEED),
          COEFF_TO_WEIGHT |-> Arg(args, 8, R(COEFF_TO_WEIGHT))]

(* Calling a class object: TypeError when the argument count does not fit. *)
Construct(cls, args) ==
    LET t == CASE cls = "Swimming" -> Swimming(args)
               [] cls = "Running" -> Running(args)
               [] cls = "SportsWalking" -> SportsWalking(args)
    IN  IF t = None
        THEN [exc |-> [type |-> "TypeError", msg |-> ""], value |-> None]
        ELSE [exc |-> NoExc, value |-> t]

(* The dict literal: its keys in insertion order, and the mapping. *)
ConformityKeys == <<"SWM", "RUN", "WLK">>

ConformityTable ==
    [c \in {ConformityKeys[k] : k \in 1..Len(ConformityKeys)} |->
        CASE c = "SWM" -> "Swimming"
          [] c = "RUN" -> "Running"
          [] c = "WLK" -> "SportsWalking"]

(* sep.join(keys) *)
RECURSIVE Join(_, _)
Join(sep, keys) ==
    IF Len(keys) = 0 THEN ""
    ELSE IF Len(keys) = 1 THEN keys[1]
    ELSE keys[1] \o sep \o Join(sep, Tail(keys))

AVAILABLE_CODES_STR == Join(", ", ConformityKeys)

(***************************************************************************)
(* Training methods.                                                       *)
(***************************************************************************)
get_distance(t) ==
    LET step == IF t.cls = "Swimming" THEN t.LEN_STEP ELSE LEN_STEP
    IN  TrueDiv(Mul(Num(t.action), Ok(step)), Num(M_IN_KM))

(* Variant of Training.get_mean_speed that answers 0 for a zero duration. *)
Training_get_mean_speed_guarded(t) ==
    IF t.duration = 0 THEN Num(0)
    ELSE TrueDiv(get_distance(t), Num(t.duration))

Training_get_mean_speed(t) == TrueDiv(get_distance(t), Num(t.duration))

Swimming_get_mean_speed(t) ==
    TrueDiv(TrueDiv(Mul(Num(t.length_pool), Num(t.count_pool)), Num(M_IN_KM)),
            Num(t.duration))

(* Variant of the method lookup in which Swimming does not override. *)
get_mean_speed_inherited(t) == Training_get_mean_speed(t)

get_mean_speed(t) ==
    IF t.cls = "Swimming" THEN Swimming_get_mean_speed(t)
    ELSE Training_get_mean_speed(t)

(* Variant of Running.get_spent_calories with the subtraction applied to   *)
(* the speed before the multiplication.                                    *)
Running_get_spent_calories_regrouped(t) ==
    Mul(Mul(TrueDiv(Mul(Mul(Ok(t.COEFF_TO_SPEED),
                            Sub(get_mean_speed(t), Ok(t.SUBTRAHEND_CALORIES))),
                        Num(t.weight)),
                    Num(M_IN_KM)),
            Num(t.duration)),
        Num(MIN_IN_H))

Running_get_spent_calories(t) ==
    Mul(Mul(TrueDiv(Mul(Sub(Mul(Ok(t.COEFF_TO_SPEED), get_mean_speed(t)),
                            Ok(t.SUBTRAHEND_CALORIES)),
                        Num(t.weight)),
                    Num(M_IN_KM)),
            Num(t.duration)),
        Num(MIN_IN_H))

SportsWalking_get_spent_calories(t) ==
    LET speed == get_mean_speed(t)
    IN  Mul(Mul(Add(Mul(Ok(COEFF_OF_WEIGHT), Num(t.weight)),
                    Mul(Mul(FloorDiv(Mul(speed, speed), Num(t.height)),
                            Ok(COEFF_OF_ACCELERATION)),
                        Num(t.weight))),
                Num(t.duration)),
            Num(MIN_IN_H))

Swimming_get_spent_calories(t) ==
    Mul(Mul(Add(get_mean_speed(t), Ok(t.COEFF_SPEED)), Ok(t.COEFF_TO_WEIGHT)),
        Num(t.weight))

get_spent_calories(t) ==
    CASE t.cls = "Running" -> Running_get_spent_calories(t)
      [] t.cls = "SportsWalking" -> SportsWalking_get_spent_calories(t)
      [] t.cls = "Swimming" -> Swimming_get_spent_calories(t)

InfoMessage(training_type, duration, distance, speed, calories) ==
    [training_type |-> training_type, duration |-> duration,
     distance |-> distance, speed |-> speed, calories |-> calories]

(* Variant of show_training_info passing distance and speed in the wrong  *)
(* order to InfoMessage.                                                   *)
show_training_info_swapped(t) ==
    LET distance == get_distance(t)
        speed == get_mean_speed(t)
        calories == get_spent_calories(t)
    IN  IF distance.ok /\ speed.ok /\ calories.ok
        THEN [exc |-> NoExc,
              value |-> InfoMessage(t.cls, R(t.duration), speed.v,
                                    distance.v, calories.v)]
        ELSE [exc |-> [type |-> "ZeroDivisionError", msg |-> ""],
              value |-> None]

show_training_info(t) ==
    LET distance == get_distance(t)
        speed == get_mean_speed(t)
        calories == get_spent_calories(t)
    IN  IF distance.ok /\ speed.ok /\ calories.ok
        THEN [exc |-> NoExc,
              value |-> InfoMessage(t.cls, R(t.duration), distance.v,
                                    speed.v, calories.v)]
        ELSE [exc |-> [type |-> "ZeroDivisionError", msg |-> ""],
              value |-> None]

(***************************************************************************)
(* InfoMessage.get_message: every number goes through the ".3f" format.    *)
(***************************************************************************)
Digit(d) == ToString(d)

(* format(x, ".3f"): x rounded to thousandths (ties to even), sign, integer *)
(* part, a dot and exactly three digits.                                    *)
Format3f(x) ==
    LET n == Abs(x[1]) * 1000
        q == n \div x[2]
        r == n % x[2]
        m == IF 2 * r > x[2] \/ (2 * r = x[2] /\ q % 2 = 1) THEN q + 1 ELSE q
        f == m % 1000
    IN  (IF x[1] < 0 THEN "-" ELSE "") \o ToString(m \div 1000) \o "."
        \o Digit(f \div 100) \o Digit((f \div 10) % 10) \o Digit(f % 10)

get_message(m) ==
    "Tip trenirovki: " \o m.training_type \o "; "
    \o "Dlitel'nost': " \o Format3f(m.duration) \o " ch.; "
    \o "Distanciya: " \o Format3f(m.distance) \o " km; "
    \o "Sr. skorost': " \o Format3f(m.speed) \o " km/ch; "
    \o "Potracheno kkal: " \o Format3f(m.calories) \o "."

(***************************************************************************)
(* Module-level functions.                                                 *)
(***************************************************************************)
(* Variant of read_package that falls back to Running for an unknown code. *)
read_package_fallback(wt, d, table) ==
    IF wt \notin DOMAIN table
    THEN Construct("Running", d)
    ELSE Construct(table[wt], d)

read_package(wt, d, table) ==
    IF wt \notin DOMAIN table
    THEN [exc |-> [type |-> "KeyError",
                   msg |-> "f'Neizvestnyj kod {workout_type}'"],
          value |-> None]
    ELSE Construct(table[wt], d)

(* main: the print is guarded by "training is None", where the attribute   *)
(* lookup on None fails; the raise after the if is unconditional.          *)
main(t, out) ==
    IF t = None
    THEN [exc |-> [type |-> "AttributeError",
                   msg |-> "'NoneType' object has no attribute "
                           \o "'show_training_info'"],
          stdout |-> out]
    ELSE [exc |-> [type |-> "AttributeError", msg |-> ""], stdout |-> out]

packages ==
    << <<"SWM", <<720, 1, 80, 25, 40>> >>,
       <<"RUN", <<15000, 1, 75>> >>,
       <<"WLK", <<9000, 1, 75, 180>> >> >>

(***************************************************************************)
(* Inputs explored: codes (known, unknown, wrong case, empty) and lists of *)
(* readings of every length up to MaxReadings.                             *)
(***************************************************************************)
Codes == {"SWM", "RUN", "WLK", "XYZ", "run", "Swm", ""}

ReadingAt(k) ==
    CASE k = 1 -> {720, 9000, 15000}
      [] k = 2 -> {0, 1, 2}
      [] k = 3 -> {75, 80}
      [] k = 4 -> {0, 25, 180}
      [] k = 5 -> {0, 40}
      [] OTHER -> {1, 2}

RECURSIVE ReadingsOfLen(_)
ReadingsOfLen(n) ==
    IF n = 0 THEN {<<>>}
    ELSE {Append(s, v) : s \in ReadingsOfLen(n - 1), v \in ReadingAt(n)}

Readings == UNION {ReadingsOfLen(n) : n \in 0..MaxReadings}

(***************************************************************************)
(* State machine.  pc = "call": a caller is about to use the functions of  *)
(* the module on (workout_type, data); pc = "script": the module runs as   *)
(* __main__ and i is the position of its loop over packages.  called is    *)
(* the function entered last.                                              *)
(***************************************************************************)
Init ==
    /\ pc \in {"call", "script"}
    /\ IF pc = "call"
       THEN workout_type \in Codes /\ data \in Readings /\ i = 0
       ELSE workout_type = "" /\ data = <<>> /\ i = 1
    /\ called = "none"
    /\ training = None
    /\ info = None
    /\ message = ""
    /\ exc = NoExc
    /\ stdout = <<>>
    /\ CONFORMITY_TO_CLASSES = ConformityTable

CallReadPackage ==
    /\ pc = "call"
    /\ LET r == read_package(workout_type, data, CONFORMITY_TO_CLASSES)
       IN  /\ training' = r.value
           /\ exc' = r.exc
           /\ pc' = IF r.exc = NoExc THEN "built" ELSE "raised"
    /\ called' = "read_package"
    /\ UNCHANGED <<workout_type, data, info, message, stdout, i,
                   CONFORMITY_TO_CLASSES>>

CallShowTrainingInfo ==
    /\ pc = "built"
    /\ LET r == show_training_info(training)
       IN  /\ info' = r.value
           /\ exc' = r.exc
           /\ pc' = IF r.exc = NoExc THEN "summarized" ELSE "raised"
    /\ called' = "show_training_info"
    /\ UNCHANGED <<workout_type, data, training, message, stdout, i,
                   CONFORMITY_TO_CLASSES>>

CallGetMessage ==
    /\ pc = "summarized"
    /\ message' = get_message(info)
    /\ pc' = "formatted"
    /\ called' = "get_message"
    /\ UNCHANGED <<workout_type, data, training, info, exc, stdout, i,
                   CONFORMITY_TO_CLASSES>>

CallMain ==
    /\ pc = "built"
    /\ LET r == main(training, stdout)
       IN  /\ stdout' = r.stdout
           /\ exc' = r.exc
           /\ pc' = IF r.exc = NoExc THEN "returned" ELSE "raised"
    /\ called' = "main"
    /\ UNCHANGED <<workout_type, data, training, info, message, i,
                   CONFORMITY_TO_CLASSES>>

(* One iteration of "for workout_type, data in packages:                   *)
(*     main(read_package(workout_type, data))"; an exception ends the run. *)
ScriptIteration ==
    /\ pc = "script"
    /\ i <= Len(packages)
    /\ LET wt == packages[i][1]
           d == packages[i][2]
           r == read_package(wt, d, CONFORMITY_TO_CLASSES)
           m == main(r.value, stdout)
       IN  /\ workout_type' = wt
           /\ data' = d
           /\ training' = r.value
           /\ called' = IF r.exc # NoExc THEN "read_package" ELSE "main"
           /\ IF r.exc # NoExc
              THEN exc' = r.exc /\ stdout' = stdout /\ i' = i /\ pc' = "exited"
              ELSE /\ exc' = m.exc
                   /\ stdout' = m.stdout
                   /\ IF m.exc # NoExc
                      THEN i' = i /\ pc' = "exited"
                      ELSE /\ i' = i + 1
                           /\ pc' = IF i + 1 > Len(packages)
                                    THEN "exited" ELSE "script"
    /\ UNCHANGED <<info, message, CONFORMITY_TO_CLASSES>>

Next ==
    \/ CallReadPackage
    \/ CallShowTrainingInfo
    \/ CallGetMessage
    \/ CallMain
    \/ ScriptIteration

Spec == Init /\ [][Next]_vars

(***************************************************************************)
(* Properties.                                                             *)
(***************************************************************************)
Known == {"SWM", "RUN", "WLK"}

Expected(code) ==
    CASE code = "SWM" -> 5
      [] code = "RUN" -> 3
      [] code = "WLK" -> 4

TypeName(code) ==
    CASE code = "SWM" -> "Swimming"
      [] code = "RUN" -> "Running"
      [] code = "WLK" -> "SportsWalking"

Contains(s, sub) ==
    \E k \in 1..(Len(s) + 1) :
        /\ k + Len(sub) - 1 <= Len(s)
        /\ SubSeq(s, k, k + Len(sub) - 1) = sub

Summarized == called = "show_training_info"

(* C1: each known code given exactly its expected number of readings       *)
(* yields a record of the matching class with the readings bound           *)
(* positionally in the listed order, and the dispatch table never changes. *)
C1_DispatchBindsPositionally ==
    /\ CONFORMITY_TO_CLASSES = ConformityTable
    /\ (called # "none" /\ workout_type = "SWM" /\ Len(data) = 5) =>
          /\ training.cls = "Swimming"
          /\ training.action = data[1]
          /\ training.duration = data[2]
          /\ training.weight = data[3]
          /\ training.length_pool = data[4]
          /\ training.count_pool = data[5]
    /\ (called # "none" /\ workout_type = "RUN" /\ Len(data) = 3) =>
          /\ training.cls = "Running"
          /\ training.action = data[1]
          /\ training.duration = data[2]
          /\ training.weight = data[3]
    /\ (called # "none" /\ workout_type = "WLK" /\ Len(data) = 4) =>
          /\ training.cls = "SportsWalking"
          /\ training.action = data[1]
          /\ training.duration = data[2]
          /\ training.weight = data[3]
          /\ training.height = data[4]
    /\ (called = "read_package" /\ workout_type \in Known
        /\ Len(data) = Expected(workout_type)) =>
          (exc = NoExc /\ pc = "built")

C1_Witness ==
    /\ called = "read_package"
    /\ pc = "built"
    /\ workout_type = "RUN"
    /\ data = <<15000, 2, 75>>
    /\ training.duration = 2
    /\ training.weight = 75

(* C2: a code that is not exactly "SWM", "RUN" or "WLK" makes read_package *)
(* fail with the unknown-code error (KeyError) whatever the readings, and  *)
(* no record is constructed.                                               *)
C2_UnknownCodeRaises ==
    (called # "none" /\ workout_type \notin Known) =>
        /\ called = "read_package"
        /\ pc = "raised"
        /\ exc.type = "KeyError"
        /\ training = None

C2_Witness ==
    /\ called = "read_package"
    /\ workout_type = "run"
    /\ Len(data) = 3
    /\ exc.type = "KeyError"
    /\ training = None

(* C3: the message of the unknown-code error contains the offending code   *)
(* as supplied and the list of valid codes.                                *)
C3_MessageNamesCode ==
    (called = "read_package" /\ exc.type = "KeyError") =>
        /\ Contains(exc.msg, workout_type)
        /\ Contains(exc.msg, AVAILABLE_CODES_STR)

(* C4: a known code given a number of readings other than its expected     *)
(* count (SWM 5, RUN 3, WLK 4), fewer or more, makes read_package fail     *)
(* with an arity error (TypeError) and yields no record.                   *)
C4_ArityMismatchRaises ==
    (called = "read_package" /\ workout_type \in Known
     /\ Len(data) # Expected(workout_type)) =>
        /\ pc = "raised"
        /\ exc.type = "TypeError"
        /\ training = None

(* C5: the script processes the three sample packages in order and writes  *)
(* the formatted summary line of each to standard output: when it ends,    *)
(* no exception escaped and stdout holds the three lines.                  *)
C5_ScriptPrintsAll ==
    (pc = "exited") =>
        /\ exc = NoExc
        /\ i = Len(packages) + 1
        /\ Len(stdout) = Len(packages)
        /\ \A k \in 1..Len(packages) :
              stdout[k] =
                get_message(show_training_info(
                    read_package(packages[k][1], packages[k][2],
                                 ConformityTable).value).value)

(* C6: for a known code with readings of the expected length in which the  *)
(* duration, the height (walking) and the pool length (swimming) are       *)
(* nonzero, read_package and then show_training_info complete without an   *)
(* exception and the summary carries the class name, the input duration,   *)
(* the distance, the mean speed and the calories.                          *)
C6_SummarizeNeverRaises ==
    (/\ workout_type \in Known
     /\ Len(data) = Expected(workout_type)
     /\ data[2] # 0
     /\ workout_type \in {"WLK", "SWM"} => data[4] # 0)
    =>
        /\ called = "read_package" => (exc = NoExc /\ pc = "built")
        /\ Summarized =>
              /\ exc = NoExc
              /\ pc = "summarized"
              /\ info.training_type = TypeName(workout_type)
              /\ info.duration = R(data[2])
              /\ info.distance = get_distance(training).v
              /\ info.speed = get_mean_speed(training).v
              /\ info.calories = get_spent_calories(training).v

C6_Witness ==
    /\ Summarized
    /\ workout_type = "SWM"
    /\ data = <<720, 2, 80, 25, 40>>
    /\ pc = "summarized"
    /\ info.training_type = "Swimming"
    /\ info.duration = R(2)

(* C7 as stated: show_training_info raises ZeroDivisionError and gives no  *)
(* summary when the duration is 0 (any class), when the height is 0        *)
(* (walking) and when the pool length is 0 (swimming).                     *)
C7_ZeroInputsFault ==
    (Summarized /\ (\/ training.duration = 0
                    \/ training.cls = "SportsWalking" /\ training.height = 0
                    \/ training.cls = "Swimming" /\ training.length_pool = 0))
    => (pc = "raised" /\ exc.type = "ZeroDivisionError" /\ info = None)

(* C7 amended: show_training_info raises ZeroDivisionError and gives no    *)
(* summary when the duration is 0 (any class) and when the height is 0     *)
(* (walking); a pool length of 0 with a nonzero duration is no fault: the  *)
(* summary is produced with mean speed 0.                                  *)
C7_ZeroDivisorsFault ==
    Summarized =>
        /\ (\/ training.duration = 0
            \/ training.cls = "SportsWalking" /\ training.height = 0)
           => (pc = "raised" /\ exc.type = "ZeroDivisionError" /\ info = None)
        /\ (training.cls = "Swimming" /\ training.length_pool = 0
            /\ training.duration # 0)
           => (exc = NoExc /\ pc = "summarized" /\ info.speed = R(0))

C7_Witness ==
    /\ Summarized
    /\ training.cls = "Running"
    /\ training.duration = 0
    /\ exc.type = "ZeroDivisionError"
    /\ info = None

(* C8 as stated: for "RUN" with readings [15000, 1, 75] the distance is    *)
(* 9.75, the mean speed 9.75 and the spent calories 701.25.                *)
C8_RunScenario701 ==
    (Summarized /\ workout_type = "RUN" /\ data = <<15000, 1, 75>>) =>
        /\ exc = NoExc
        /\ info.distance = Rat(975, 100)
        /\ info.speed = Rat(975, 100)
        /\ info.calories = Rat(70125, 100)

(* C8 amended: for "RUN" with readings [15000, 1, 75] the distance is      *)
(* 9.75, the mean speed 9.75 and the spent calories                        *)
(* (18*9.75 - 20) * 75 / 1000 * 1 * 60 = 699.75.                           *)
C8_RunScenario ==
    (Summarized /\ workout_type = "RUN" /\ data = <<15000, 1, 75>>) =>
        /\ exc = NoExc
        /\ info.distance = Rat(975, 100)
        /\ info.speed = Rat(975, 100)
        /\ info.calories = Rat(69975, 100)

C8_Witness ==
    /\ Summarized
    /\ workout_type = "RUN"
    /\ data = <<15000, 1, 75>>
    /\ pc = "summarized"
    /\ info.training_type = "Running"

(* The whole number q with q <= x / h < q + 1, for h > 0. *)
WholeQuotient(x, h) ==
    CHOOSE q \in 0..x[1] :
        /\ q * h * x[2] <= x[1]
        /\ x[1] < (q + 1) * h * x[2]

(* C9: for a walking record with nonzero duration and positive height the  *)
(* calories are (0.035*weight + floor(speed^2 / height) * 0.029*weight)    *)
(* * duration * 60 with the quotient floored to a whole number; when       *)
(* speed^2 < height they are 0.035*weight*duration*60; readings            *)
(* [9000, 1, 75, 180] give distance 5.85, speed 5.85, calories 157.5.      *)
C9_WalkingCaloriesFloor ==
    (Summarized /\ training.cls = "SportsWalking" /\ training.duration # 0
     /\ training.height > 0) =>
        /\ exc = NoExc
        /\ LET w == training.weight
               d == training.duration
               h == training.height
               speed == Rat(training.action * 65, 100 * 1000 * d)
               square == RMul(speed, speed)
               q == WholeQuotient(square, h)
           IN  /\ info.speed = speed
               /\ info.calories =
                    RMul(RAdd(Rat(35 * w, 1000), Rat(q * 29 * w, 1000)),
                         R(d * 60))
               /\ RLess(square, R(h)) =>
                    info.calories = Rat(35 * w * d * 60, 1000)
        /\ data = <<9000, 1, 75, 180>> =>
              /\ info.distance = Rat(585, 100)
              /\ info.speed = Rat(585, 100)
              /\ info.calories = Rat(1575, 10)

C9_Witness ==
    /\ Summarized
    /\ data = <<9000, 1, 75, 25>>
    /\ training.cls = "SportsWalking"
    /\ info.speed = Rat(585, 100)
    /\ info.calories = R(288)

(* C10: Swimming records that differ only in action have the same mean     *)
(* speed and the same calories; the mean speed is                          *)
(* length_pool * count_pool / 1000 / duration, and only the distance       *)
(* varies, as action * 1.38 / 1000 for a record of the five readings;      *)
(* readings [720, 1, 80, 25, 40] give mean speed 1.0 and calories 336.0.   *)
C10_SwimmingIgnoresAction ==
    (Summarized /\ training.cls = "Swimming" /\ training.duration # 0) =>
        /\ exc = NoExc
        /\ info.speed = Rat(training.length_pool * training.count_pool,
                            1000 * training.duration)
        /\ \A a \in ReadingAt(1) :
              LET other == show_training_info([training EXCEPT !.action = a])
              IN  /\ other.exc = NoExc
                  /\ other.value.speed = info.speed
                  /\ other.value.calories = info.calories
                  /\ Len(data) = 5 =>
                        other.value.distance = Rat(a * 138, 100 * 1000)
        /\ Len(data) = 5 =>
              info.distance = Rat(training.action * 138, 100 * 1000)
        /\ data = <<720, 1, 80, 25, 40>> =>
              (info.speed = R(1) /\ info.calories = R(336))

C10_Witness ==
    /\ Summarized
    /\ data = <<720, 1, 80, 25, 40>>
    /\ training.cls = "Swimming"
    /\ info.speed = R(1)
    /\ info.calories = R(336)

====
